---- MODULE Spec2Model ----
(***************************************************************************)
(* The prompt vault (App.tsx, PromptFormModal, PromptModal,                *)
(* DataSettingsModal) as a state machine.  Every handler is cut at its     *)
(* await points: the synchronous part of a handler is one action, and the  *)
(* completion of the awaited store call is another.                        *)
(*                                                                         *)
(* Text fields (title, prompt, outputMediaUrl, tags entries) are sequences *)
(* of one-character strings; id and category are only ever compared, so    *)
(* they are plain strings.  A JavaScript object is a record whose DOMAIN   *)
(* holds exactly the keys the object carries: a missing key is a missing   *)
(* field.  Fields that no modelled handler reads or writes (negativePrompt,*)
(* inputMediaUrl, modelUsed, isVideo) are left out of the objects.         *)
(***************************************************************************)
EXTENDS Integers, Sequences, FiniteSets, TLC

VARIABLES
    store,          \* services/db: the persisted collection, id -> record
    items,          \* App: the in-memory list
    isLoading,      \* App: loading flag
    editingItem,    \* App: record being edited, or None
    selectedItem,   \* App: record shown in the detail dialog, or None
    isFormOpen,     \* App: the form dialog is open
    isSaving,       \* PromptFormModal: a submit is awaiting onSave
    errors,         \* PromptFormModal: names of the fields flagged
    isDeleting,     \* PromptModal: the delete confirmation is armed
    timers,         \* PromptModal: pending 3 s reset timers
    armedId,        \* PromptModal: id of the record shown when the confirmation
                    \* was armed, "" when it is not armed (history)
    isImporting,    \* DataSettingsModal: an import is running
    statusMsg,      \* DataSettingsModal: the status line
    importPc,       \* handleFileChange: "idle", "reading", "saving", "stuck"
    fileText,       \* handleFileChange: the text of the chosen file
    parsedData,     \* reader.onload: the parsed array
    idx,            \* reader.onload: position of the element being saved
    count,          \* reader.onload: number of saves completed
    loads,          \* loadData calls in flight
    saveTask,       \* handleSaveItem: the record whose db.save is awaited
    deleteTasks,    \* handleDeleteItem: ids whose db.delete is awaited
    isExporting,    \* DataSettingsModal: an export is running
    download,       \* handleExport: the text of the last backup file produced
    exported,       \* handleExport: the collection the last export read
    alerts,         \* number of alert() dialogs shown
    now,            \* Date.now()
    activeCategory, \* App: the category tab shown
    searchQuery,    \* App: the text of the search box
    apiKey,         \* process.env.API_KEY is set
    refinePc,       \* refinePrompt: "idle" or "awaiting" generateContent
    originalPrompt, \* refinePrompt: its argument
    refined,        \* refinePrompt: the string it last returned, or None
    requests        \* number of generateContent requests issued

appVars    == <<items, isLoading, editingItem, selectedItem, isFormOpen>>
formVars   == <<isSaving, errors>>
detailVars == <<isDeleting, timers, armedId>>
importVars == <<isImporting, statusMsg, importPc, fileText, parsedData, idx, count>>
exportVars == <<isExporting, download, exported>>
taskVars   == <<loads, saveTask, deleteTasks>>
envVars    == <<alerts, now>>
viewVars   == <<activeCategory, searchQuery>>
refineVars == <<apiKey, refinePc, originalPrompt, refined, requests>>
vars == <<store, appVars, formVars, detailVars, importVars, exportVars, taskVars, envVars,
          viewVars, refineVars>>

(***************************************************************************)
(* Bounds of the model.                                                    *)
(***************************************************************************)
MaxClock  == 2    \* Date.now() ranges over 1..MaxClock
MaxElems  == 2    \* longest backup array
MaxLoads  == 1    \* loadData calls in flight at once
MaxItems  == 2    \* length of the in-memory list
MaxAlerts == 1    \* alert() dialogs shown
MaxTimers == 1    \* pending confirmation timers
MaxRequests == 4  \* generateContent requests issued

(***************************************************************************)
(* Values.                                                                 *)
(***************************************************************************)
None == [type |-> "none"]

Empty == <<>>

\* String.prototype.trim over the one whitespace character of the model.
IsSpace(c) == c = " "

RECURSIVE TrimStart(_)
TrimStart(s) ==
    IF s # Empty /\ IsSpace(Head(s)) THEN TrimStart(Tail(s)) ELSE s

RECURSIVE TrimEnd(_)
TrimEnd(s) ==
    IF s # Empty /\ IsSpace(s[Len(s)]) THEN TrimEnd(SubSeq(s, 1, Len(s) - 1)) ELSE s

Trim(s) == TrimEnd(TrimStart(s))

\* The five values of CategoryType.
CATEGORIES == {"txt2img", "img2img", "img2vid", "txt2vid", "general"}

\* Date.now().toString()
NowId(n) == ToString(n)

\* o.k is truthy, for the keys that hold plain strings (id, category).
TruthyStr(o, k) == k \in DOMAIN o /\ o[k] # ""

\* o.k is truthy, for the keys that hold text (title, prompt, outputMediaUrl).
TruthyText(o, k) == k \in DOMAIN o /\ o[k] # Empty

\* { ...o, [k]: v }
With(o, k, v) == [x \in DOMAIN o \cup {k} |-> IF x = k THEN v ELSE o[x]]

Range(s) == {s[i] : i \in 1..Len(s)}

(***************************************************************************)
(* services/db: an asynchronous key-value store keyed by record id.        *)
(***************************************************************************)
KeyOrder == [n \in 1..MaxClock |-> NowId(n)]

DbSave(s, rec) ==
    [k \in DOMAIN s \cup {rec.id} |-> IF k = rec.id THEN rec ELSE s[k]]

DbDelete(s, id) == [k \in DOMAIN s \ {id} |-> s[k]]

RECURSIVE DbScan(_, _)
DbScan(s, n) ==
    IF n > Len(KeyOrder) THEN <<>>
    ELSE IF KeyOrder[n] \in DOMAIN s THEN <<s[KeyOrder[n]]>> \o DbScan(s, n + 1)
    ELSE DbScan(s, n + 1)

DbGetAll(s) == DbScan(s, 1)

(***************************************************************************)
(* JSON.  A JSON text is a sequence of tokens; the values inside an array  *)
(* are atomic tokens (an object or null).                                  *)
(***************************************************************************)
JNull == [type |-> "null"]

JObject(o) == [type |-> "object", obj |-> o]

LBracket == [tok |-> "["]

RBracket == [tok |-> "]"]

Comma == [tok |-> ","]

ValueTok(v) == [tok |-> "value", value |-> v]

RECURSIVE JoinValues(_)
JoinValues(vs) ==
    IF vs = <<>> THEN <<>>
    ELSE IF Len(vs) = 1 THEN <<ValueTok(vs[1])>>
    ELSE <<ValueTok(vs[1]), Comma>> \o JoinValues(Tail(vs))

\* JSON.stringify of an array of records.
JsonStringify(recs) ==
    <<LBracket>> \o JoinValues([i \in 1..Len(recs) |-> JObject(recs[i])]) \o <<RBracket>>

ParseFail == [ok |-> FALSE, isArray |-> FALSE, elems |-> <<>>]

RECURSIVE ParseList(_)
ParseList(t) ==
    IF t = <<>> THEN ParseFail
    ELSE IF t[1].tok # "value" THEN ParseFail
    ELSE IF Len(t) = 1 THEN [ok |-> TRUE, isArray |-> TRUE, elems |-> <<t[1].value>>]
    ELSE IF t[2].tok # "," THEN ParseFail
    ELSE LET r == ParseList(SubSeq(t, 3, Len(t)))
         IN  IF r.ok THEN [r EXCEPT !.elems = <<t[1].value>> \o r.elems] ELSE ParseFail

\* JsonParse without the Array.isArray test: any other value reads as [].
JsonParseAnyValue(t) ==
    IF Len(t) >= 2 /\ t[1].tok = "[" /\ t[Len(t)].tok = "]" /\ Len(t) > 2
    THEN ParseList(SubSeq(t, 2, Len(t) - 1))
    ELSE [ok |-> TRUE, isArray |-> TRUE, elems |-> <<>>]

\* JSON.parse followed by Array.isArray: ok is FALSE when JSON.parse throws.
JsonParse(t) ==
    IF Len(t) = 1 /\ t[1].tok = "value"
    THEN [ok |-> TRUE, isArray |-> FALSE, elems |-> <<>>]
    ELSE IF Len(t) >= 2 /\ t[1].tok = "[" /\ t[Len(t)].tok = "]"
    THEN IF Len(t) = 2
         THEN [ok |-> TRUE, isArray |-> TRUE, elems |-> <<>>]
         ELSE ParseList(SubSeq(t, 2, Len(t) - 1))
    ELSE ParseFail

(***************************************************************************)
(* The files a user can choose for an import.                              *)
(***************************************************************************)
ValidGeneral == [id |-> "1", category |-> "general", prompt |-> <<"x">>]

IdOnly == [id |-> "2"]

EmptyId == [id |-> "", category |-> "general", prompt |-> <<"x">>]

BogusCategory == [id |-> "2", category |-> "bogus", prompt |-> <<"x">>]

BlankNoOutput == [id |-> "1", category |-> "img2img", prompt |-> <<" ">>]

ImportedFull ==
    [id |-> "2", category |-> "img2img", title |-> <<"a">>, prompt |-> <<"x">>,
     outputMediaUrl |-> <<"u">>, tags |-> <<>>]

ImportObjects == {ValidGeneral, IdOnly, EmptyId, BogusCategory, BlankNoOutput, ImportedFull}

Elems == {JNull} \cup {JObject(o) : o \in ImportObjects}

Arrays == UNION {[1..n -> Elems] : n \in 0..MaxElems}

ArrayText(vs) == <<LBracket>> \o JoinValues(vs) \o <<RBracket>>

\* An unterminated array, and a file whose top-level value is an object.
GarbageFile == <<LBracket>>

ObjectFile == <<ValueTok(JObject(ValidGeneral))>>

Files == {ArrayText(a) : a \in Arrays} \cup {GarbageFile, ObjectFile}

\* The files chosen while the rest of the application is in use.
MainFiles ==
    {GarbageFile, ArrayText(<<JObject(BlankNoOutput), JObject(ImportedFull)>>)}

(***************************************************************************)
(* Initial state: the application has mounted on an empty store and the    *)
(* effect of App has called loadData(), which is awaiting db.getAll().     *)
(***************************************************************************)
\* loadData has set isLoading and awaits navigator.storage.persist().
LoadPending == [pc |-> "persist"]

NoStatus == [type |-> "none"]

ErrorStatus == [type |-> "error"]

SuccessStatus(n) == [type |-> "success", count |-> n]

Init ==
    /\ store = <<>>
    /\ items = <<>>
    /\ isLoading = TRUE
    /\ editingItem = None
    /\ selectedItem = None
    /\ isFormOpen = FALSE
    /\ isSaving = FALSE
    /\ errors = {}
    /\ isDeleting = FALSE
    /\ timers = 0
    /\ armedId = ""
    /\ isImporting = FALSE
    /\ statusMsg = NoStatus
    /\ importPc = "idle"
    /\ fileText = <<>>
    /\ parsedData = <<>>
    /\ idx = 0
    /\ count = 0
    /\ loads = <<LoadPending>>
    /\ saveTask = None
    /\ deleteTasks = {}
    /\ isExporting = FALSE
    /\ download = <<>>
    /\ exported = <<>>
    /\ alerts = 0
    /\ now = 1
    /\ activeCategory = "txt2img"
    /\ searchQuery = Empty
    /\ apiKey = TRUE
    /\ refinePc = "idle"
    /\ originalPrompt = Empty
    /\ refined = None
    /\ requests = 0

RemoveAt(s, i) == SubSeq(s, 1, i - 1) \o SubSeq(s, i + 1, Len(s))

(***************************************************************************)
(* App.loadData.  Every call site passes forceReset = false, so the        *)
(* db.clear() branch is not taken.                                         *)
(***************************************************************************)
\* navigator.storage.persist() resolves: loadData enters its try block.
LoadPersistOk(i) ==
    /\ loads[i].pc = "persist"
    /\ loads' = [loads EXCEPT ![i] = [pc |-> "getAll"]]
    /\ UNCHANGED <<viewVars, refineVars, exportVars, store, appVars, formVars, detailVars, importVars, saveTask, deleteTasks, envVars>>

\* navigator.storage.persist() rejects outside the try block: loadData
\* rejects and neither its catch nor its finally runs.
LoadPersistFail(i) ==
    /\ loads[i].pc = "persist"
    /\ loads' = RemoveAt(loads, i)
    /\ UNCHANGED <<viewVars, refineVars, exportVars, store, appVars, formVars, detailVars, importVars, saveTask, deleteTasks, envVars>>

\* db.getAll() reads the collection; the continuation runs later.
LoadGetAllOk(i) ==
    /\ loads[i].pc = "getAll"
    /\ loads' = [loads EXCEPT ![i] = [pc |-> "setItems", storedItems |-> DbGetAll(store)]]
    /\ UNCHANGED <<viewVars, refineVars, exportVars, store, appVars, formVars, detailVars, importVars, saveTask, deleteTasks, envVars>>

\* db.getAll() rejects: catch, then finally.
LoadGetAllFail(i) ==
    /\ loads[i].pc = "getAll"
    /\ items' = <<>>
    /\ isLoading' = FALSE
    /\ loads' = RemoveAt(loads, i)
    /\ UNCHANGED <<viewVars, refineVars, exportVars, store, editingItem, selectedItem, isFormOpen, formVars, detailVars,
                   importVars, saveTask, deleteTasks, envVars>>

\* setItems(storedItems), then finally.
LoadSetItems(i) ==
    /\ loads[i].pc = "setItems"
    /\ items' = loads[i].storedItems
    /\ isLoading' = FALSE
    /\ loads' = RemoveAt(loads, i)
    /\ UNCHANGED <<viewVars, refineVars, exportVars, store, editingItem, selectedItem, isFormOpen, formVars, detailVars,
                   importVars, saveTask, deleteTasks, envVars>>

(***************************************************************************)
(* DataSettingsModal.handleFileChange and reader.onload.                   *)
(***************************************************************************)
\* Accepts with the image link required as well.
AcceptsWithImage(o) ==
    /\ TruthyStr(o, "id")
    /\ TruthyStr(o, "category")
    /\ TruthyText(o, "prompt")
    /\ TruthyText(o, "outputMediaUrl")

\* item.id && item.category && item.prompt
Accepts(o) == TruthyStr(o, "id") /\ TruthyStr(o, "category") /\ TruthyText(o, "prompt")

\* The for-of loop from position i up to its next await, its end, or the
\* TypeError that reading a property of null raises.
RECURSIVE RunLoop(_, _)
RunLoop(elems, i) ==
    IF i > Len(elems) THEN [kind |-> "done", idx |-> i]
    ELSE IF elems[i].type = "null" THEN [kind |-> "throw", idx |-> i]
    ELSE IF Accepts(elems[i].obj) THEN [kind |-> "await", idx |-> i]
    ELSE RunLoop(elems, i + 1)

ImportFinally ==
    /\ isImporting' = FALSE
    /\ importPc' = "idle"
    /\ fileText' = <<>>
    /\ parsedData' = <<>>
    /\ idx' = 0
    /\ count' = 0

ImportCatch ==
    /\ statusMsg' = ErrorStatus
    /\ ImportFinally
    /\ UNCHANGED <<items, isLoading, loads>>

\* ImportContinue with onDataUpdate() called before the save is awaited.
ImportContinueReloadsFirst(elems, i, c) ==
    LET r == RunLoop(elems, i)
    IN  CASE r.kind = "await" ->
               /\ importPc' = "saving"
               /\ parsedData' = elems
               /\ idx' = r.idx
               /\ count' = c
               /\ isLoading' = TRUE
               /\ loads' = Append(loads, LoadPending)
               /\ UNCHANGED <<isImporting, statusMsg, fileText, items>>
          [] r.kind = "throw" -> ImportCatch
          [] r.kind = "done" ->
               /\ statusMsg' = SuccessStatus(c)
               /\ ImportFinally
               /\ UNCHANGED <<items, isLoading, loads>>

\* The loop resumes at position i with c saves completed.
ImportContinue(elems, i, c) ==
    LET r == RunLoop(elems, i)
    IN  CASE r.kind = "await" ->
               /\ importPc' = "saving"
               /\ parsedData' = elems
               /\ idx' = r.idx
               /\ count' = c
               /\ UNCHANGED <<isImporting, statusMsg, fileText, items, isLoading, loads>>
          [] r.kind = "throw" -> ImportCatch
          [] r.kind = "done" ->
               /\ statusMsg' = SuccessStatus(c)
               /\ isLoading' = TRUE
               /\ loads' = Append(loads, LoadPending)
               /\ ImportFinally
               /\ UNCHANGED items

\* The settings dialog is reached from the header, which the form and the
\* detail dialog cover while they are open.
HandleFileChange(f) ==
    /\ importPc = "idle"
    /\ ~isImporting
    /\ ~isExporting
    /\ ~isFormOpen
    /\ selectedItem = None
    /\ Len(loads) < MaxLoads
    /\ isImporting' = TRUE
    /\ statusMsg' = NoStatus
    /\ importPc' = "reading"
    /\ fileText' = f
    /\ UNCHANGED <<viewVars, refineVars, exportVars, store, appVars, formVars, detailVars, parsedData, idx, count, taskVars, envVars>>

ImportOnload ==
    /\ importPc = "reading"
    /\ LET p == JsonParse(fileText)
       IN  IF p.ok /\ p.isArray THEN ImportContinue(p.elems, 1, 0) ELSE ImportCatch
    /\ UNCHANGED <<viewVars, refineVars, exportVars, store, editingItem, selectedItem, isFormOpen, formVars, detailVars,
                   saveTask, deleteTasks, envVars>>

\* The FileReader fails: no onerror handler is installed.
ImportReadError ==
    /\ importPc = "reading"
    /\ importPc' = "stuck"
    /\ UNCHANGED <<viewVars, refineVars, exportVars, store, appVars, formVars, detailVars, isImporting, statusMsg, fileText,
                   parsedData, idx, count, taskVars, envVars>>

\* ImportSaveDone with a db.save that replaces the whole collection.
ImportSaveDoneReplacesAll(ok) ==
    /\ importPc = "saving"
    /\ IF ok
       THEN /\ store' = DbSave(<<>>, parsedData[idx].obj)
            /\ ImportContinue(parsedData, idx + 1, count + 1)
       ELSE /\ store' = store
            /\ ImportCatch
    /\ UNCHANGED <<viewVars, refineVars, exportVars, editingItem, selectedItem, isFormOpen, formVars, detailVars,
                   saveTask, deleteTasks, envVars>>

ImportSaveDone(ok) ==
    /\ importPc = "saving"
    /\ IF ok
       THEN /\ store' = DbSave(store, parsedData[idx].obj)
            /\ ImportContinue(parsedData, idx + 1, count + 1)
       ELSE /\ store' = store
            /\ ImportCatch
    /\ UNCHANGED <<viewVars, refineVars, exportVars, editingItem, selectedItem, isFormOpen, formVars, detailVars,
                   saveTask, deleteTasks, envVars>>

(***************************************************************************)
(* DataSettingsModal.handleExport.                                         *)
(***************************************************************************)
ExportSuccess == [type |-> "success", text |-> "exported"]

HandleExport ==
    /\ ~isExporting
    /\ ~isImporting
    /\ isExporting' = TRUE
    /\ statusMsg' = NoStatus
    /\ UNCHANGED <<viewVars, refineVars, store, appVars, formVars, detailVars, isImporting, importPc, fileText,
                   parsedData, idx, count, download, exported, taskVars, envVars>>

\* db.getAll() settles: the file is produced, or the catch reports the failure.
ExportDone(ok) ==
    /\ isExporting
    /\ IF ok
       THEN /\ exported' = DbGetAll(store)
            /\ download' = JsonStringify(DbGetAll(store))
            /\ statusMsg' = ExportSuccess
       ELSE /\ UNCHANGED <<exported, download>>
            /\ statusMsg' = ErrorStatus
    /\ isExporting' = FALSE
    /\ UNCHANGED <<viewVars, refineVars, store, appVars, formVars, detailVars, isImporting, importPc, fileText,
                   parsedData, idx, count, taskVars, envVars>>

(***************************************************************************)
(* PromptFormModal.  formData is the base the effect installed when the    *)
(* dialog opened (initialData, or the defaults of a new record) with the   *)
(* fields the user has typed since, so a submit takes it as its input.     *)
(***************************************************************************)
\* What a user types into the dialog before submitting: the keys typed.
NoTitle == [prompt |-> <<"a">>, category |-> "general", outputMediaUrl |-> <<>>]

BlankPrompt ==
    [title |-> <<"a">>, prompt |-> <<" ">>, category |-> "general", outputMediaUrl |-> <<>>]

MediaNoOutput == [title |-> <<"a">>, prompt |-> <<"a">>, outputMediaUrl |-> <<>>]

MediaFull == [title |-> <<"a">>, prompt |-> <<"a">>, outputMediaUrl |-> <<"u">>]

GeneralFull ==
    [title |-> <<"a">>, prompt |-> <<"a">>, category |-> "general", outputMediaUrl |-> <<>>]

FormInputs == {NoTitle, BlankPrompt, MediaNoOutput, MediaFull, GeneralFull}

DefaultFormData(n) ==
    [id |-> NowId(n), category |-> "txt2img", tags |-> <<>>, title |-> <<>>,
     prompt |-> <<>>, outputMediaUrl |-> <<>>]

\* { ...formData, [k]: e.target.value } for every key typed.
TypeInto(base, typed) ==
    [k \in DOMAIN base \cup DOMAIN typed |-> IF k \in DOMAIN typed THEN typed[k] ELSE base[k]]

FormDatas(base) == {TypeInto(base, typed) : typed \in FormInputs}

\* NewErrors without the title test.
NewErrorsNoTitle(fd) ==
    {k \in {"prompt"} : ~("prompt" \in DOMAIN fd /\ Trim(fd.prompt) # Empty)}
    \cup {k \in {"outputMediaUrl"} :
            /\ ("category" \notin DOMAIN fd \/ fd.category # "general")
            /\ ~TruthyText(fd, "outputMediaUrl")}

\* NewErrors without the outputMediaUrl test.
NewErrorsNoOutput(fd) ==
    {k \in {"title"} : ~("title" \in DOMAIN fd /\ Trim(fd.title) # Empty)}
    \cup {k \in {"prompt"} : ~("prompt" \in DOMAIN fd /\ Trim(fd.prompt) # Empty)}

\* NewErrors without the calls of trim.
NewErrorsNoTrim(fd) ==
    {k \in {"title"} : ~TruthyText(fd, "title")}
    \cup {k \in {"prompt"} : ~TruthyText(fd, "prompt")}
    \cup {k \in {"outputMediaUrl"} :
            /\ ("category" \notin DOMAIN fd \/ fd.category # "general")
            /\ ~TruthyText(fd, "outputMediaUrl")}

\* The fields handleSubmit flags.
NewErrors(fd) ==
    {k \in {"title"} : ~("title" \in DOMAIN fd /\ Trim(fd.title) # Empty)}
    \cup {k \in {"prompt"} : ~("prompt" \in DOMAIN fd /\ Trim(fd.prompt) # Empty)}
    \cup {k \in {"outputMediaUrl"} :
            /\ ("category" \notin DOMAIN fd \/ fd.category # "general")
            /\ ~TruthyText(fd, "outputMediaUrl")}

OpenCreateModal ==
    /\ ~isFormOpen
    /\ selectedItem = None
    /\ editingItem' = None
    /\ isFormOpen' = TRUE
    /\ errors' = {}
    /\ UNCHANGED <<viewVars, refineVars, exportVars, store, items, isLoading, selectedItem, isSaving, detailVars, importVars,
                   taskVars, envVars>>

\* The cancel and close buttons: onClose.
CloseForm ==
    /\ isFormOpen
    /\ isFormOpen' = FALSE
    /\ UNCHANGED <<viewVars, refineVars, exportVars, store, items, isLoading, editingItem, selectedItem, formVars, detailVars,
                   importVars, taskVars, envVars>>

\* handleSubmit with a field flagged.
SubmitInvalid(fd) ==
    /\ isFormOpen
    /\ ~isSaving
    /\ NewErrors(fd) # {}
    /\ errors' = NewErrors(fd)
    /\ UNCHANGED <<viewVars, refineVars, exportVars, store, appVars, isSaving, detailVars, importVars, taskVars, envVars>>

\* SubmitEdit with the setItems of the creating branch.
SubmitEditPrepends(fd) ==
    /\ isFormOpen
    /\ ~isSaving
    /\ editingItem # None
    /\ NewErrors(fd) = {}
    /\ isSaving' = TRUE
    /\ items' = <<fd>> \o items
    /\ selectedItem' = IF selectedItem # None /\ selectedItem.id = fd.id THEN fd ELSE selectedItem
    /\ editingItem' = None
    /\ errors' = {}
    /\ saveTask' = fd
    /\ UNCHANGED <<viewVars, refineVars, exportVars, store, isLoading, isFormOpen, detailVars, importVars, loads, deleteTasks,
                   envVars>>

\* handleSubmit up to the await in handleSaveItem, editing branch.
SubmitEdit(fd) ==
    /\ isFormOpen
    /\ ~isSaving
    /\ editingItem # None
    /\ NewErrors(fd) = {}
    /\ isSaving' = TRUE
    /\ items' = [i \in 1..Len(items) |-> IF items[i].id = fd.id THEN fd ELSE items[i]]
    /\ selectedItem' = IF selectedItem # None /\ selectedItem.id = fd.id THEN fd ELSE selectedItem
    /\ editingItem' = None
    /\ errors' = {}
    /\ saveTask' = fd
    /\ UNCHANGED <<viewVars, refineVars, exportVars, store, isLoading, isFormOpen, detailVars, importVars, loads, deleteTasks,
                   envVars>>

\* handleSubmit up to the await in handleSaveItem, creating branch.
SubmitCreate(fd) ==
    /\ isFormOpen
    /\ ~isSaving
    /\ editingItem = None
    /\ NewErrors(fd) = {}
    /\ Len(items) < MaxItems
    /\ isSaving' = TRUE
    /\ LET newItem == With(fd, "id", NowId(now))
       IN  /\ items' = <<newItem>> \o items
           /\ saveTask' = newItem
    /\ editingItem' = None
    /\ UNCHANGED <<viewVars, refineVars, exportVars, store, isLoading, selectedItem, isFormOpen, errors, detailVars, importVars,
                   loads, deleteTasks, envVars>>

HandleSubmit ==
    \E fd \in FormDatas(IF editingItem # None THEN editingItem ELSE DefaultFormData(now)) :
        SubmitInvalid(fd) \/ SubmitEdit(fd) \/ SubmitCreate(fd)

\* db.save settles; handleSaveItem returns and handleSubmit closes the dialog.
SaveDone(ok) ==
    /\ saveTask # None
    /\ IF ok
       THEN /\ store' = DbSave(store, saveTask)
            /\ alerts' = alerts
       ELSE /\ alerts < MaxAlerts
            /\ store' = store
            /\ alerts' = alerts + 1
    /\ saveTask' = None
    /\ isSaving' = FALSE
    /\ isFormOpen' = FALSE
    /\ UNCHANGED <<viewVars, refineVars, exportVars, items, isLoading, editingItem, selectedItem, errors, detailVars, importVars,
                   loads, deleteTasks, now>>

(***************************************************************************)
(* The grids and PromptModal.                                              *)
(***************************************************************************)
\* A card of the record is on screen under some category tab.
Visible(o) ==
    /\ o.category \in CATEGORIES
    /\ "title" \in DOMAIN o
    /\ "tags" \in DOMAIN o
    /\ (o.category = "general" \/ TruthyText(o, "outputMediaUrl"))

\* onSelect
SelectItem(i) ==
    /\ ~isLoading
    /\ ~isFormOpen
    /\ selectedItem = None
    /\ Visible(items[i])
    /\ selectedItem' = items[i]
    /\ UNCHANGED <<viewVars, refineVars, exportVars, store, items, isLoading, editingItem, isFormOpen, formVars, detailVars,
                   importVars, taskVars, envVars>>

\* onClose of the detail dialog
CloseDetail ==
    /\ selectedItem # None
    /\ selectedItem' = None
    /\ UNCHANGED <<viewVars, refineVars, exportVars, store, items, isLoading, editingItem, isFormOpen, formVars, detailVars,
                   importVars, taskVars, envVars>>

OpenEditModal ==
    /\ selectedItem # None
    /\ editingItem' = selectedItem
    /\ isFormOpen' = TRUE
    /\ selectedItem' = None
    /\ errors' = {}
    /\ UNCHANGED <<viewVars, refineVars, exportVars, store, items, isLoading, isSaving, detailVars, importVars, taskVars, envVars>>

\* handleDeleteClick, first click: arm the confirmation and its timer.
DeleteClickArm ==
    /\ selectedItem # None
    /\ ~isDeleting
    /\ timers < MaxTimers
    /\ isDeleting' = TRUE
    /\ timers' = timers + 1
    /\ armedId' = selectedItem.id
    /\ UNCHANGED <<viewVars, refineVars, exportVars, store, appVars, formVars, importVars, taskVars, envVars>>

\* DeleteClickConfirm without the setItems of handleDeleteItem.
DeleteClickConfirmKeepsList ==
    /\ selectedItem # None
    /\ isDeleting
    /\ selectedItem.id \notin deleteTasks
    /\ items' = items
    /\ selectedItem' = None
    /\ deleteTasks' = deleteTasks \cup {selectedItem.id}
    /\ UNCHANGED <<viewVars, refineVars, exportVars, store, isLoading, editingItem, isFormOpen, formVars, detailVars, importVars,
                   loads, saveTask, envVars>>

\* handleDeleteClick when armed: handleDeleteItem up to its await, then onClose.
DeleteClickConfirm ==
    /\ selectedItem # None
    /\ isDeleting
    /\ selectedItem.id \notin deleteTasks
    /\ items' = SelectSeq(items, LAMBDA it : it.id # selectedItem.id)
    /\ selectedItem' = None
    /\ deleteTasks' = deleteTasks \cup {selectedItem.id}
    /\ UNCHANGED <<viewVars, refineVars, exportVars, store, isLoading, editingItem, isFormOpen, formVars, detailVars, importVars,
                   loads, saveTask, envVars>>

\* setTimeout(() => setIsDeleting(false), 3000)
TimerFire ==
    /\ timers > 0
    /\ timers' = timers - 1
    /\ isDeleting' = FALSE
    /\ armedId' = ""
    /\ UNCHANGED <<viewVars, refineVars, exportVars, store, appVars, formVars, importVars, taskVars, envVars>>

\* db.delete settles; a rejection is caught and dropped.
DeleteDone(id, ok) ==
    /\ id \in deleteTasks
    /\ deleteTasks' = deleteTasks \ {id}
    /\ store' = IF ok THEN DbDelete(store, id) ELSE store
    /\ UNCHANGED <<viewVars, refineVars, exportVars, appVars, formVars, detailVars, importVars, loads, saveTask, envVars>>

(***************************************************************************)
(* services/geminiService.refinePrompt.  The string it returns is either a *)
(* fixed message of the code or the text of the response.                  *)
(***************************************************************************)
KeyMissing == [type |-> "fixed", msg |-> "API Key missing. Unable to refine prompt."]

NoResponse == [type |-> "fixed", msg |-> "Could not generate response."]

ServiceError == [type |-> "fixed", msg |-> "Error communicating with AI service."]

RefinedText(t) == [type |-> "text", text |-> t]

\* The promise of refinePrompt rejects.
Raised == [type |-> "raised"]

\* The prompts passed to refinePrompt and the texts a response can carry.
Prompts == {<<"a">>, <<"c", "a", "t">>, <<" ">>}

ResponseTexts == {Empty, <<"r">>, <<"r", "s">>, <<"a">>}

\* refinePrompt up to its return without a key, or up to its await.
RefinePrompt(p) ==
    /\ refinePc = "idle"
    /\ requests < MaxRequests
    /\ originalPrompt' = p
    /\ IF ~apiKey
       THEN /\ refined' = KeyMissing
            /\ UNCHANGED <<refinePc, requests>>
       ELSE /\ refinePc' = "awaiting"
            /\ requests' = requests + 1
            /\ refined' = refined
    /\ UNCHANGED <<apiKey, viewVars, exportVars, store, appVars, formVars, detailVars, importVars,
                   taskVars, envVars>>

\* generateContent resolves: response.text || "Could not generate response."
GenerateResolves(t) ==
    /\ refinePc = "awaiting"
    /\ refined' = IF t # Empty THEN RefinedText(t) ELSE NoResponse
    /\ refinePc' = "idle"
    /\ UNCHANGED <<apiKey, originalPrompt, requests, viewVars, exportVars, store, appVars, formVars,
                   detailVars, importVars, taskVars, envVars>>

\* GenerateRejects without the catch.
GenerateRejectsRaises ==
    /\ refinePc = "awaiting"
    /\ refined' = Raised
    /\ refinePc' = "idle"
    /\ UNCHANGED <<apiKey, originalPrompt, requests, viewVars, exportVars, store, appVars, formVars,
                   detailVars, importVars, taskVars, envVars>>

\* generateContent rejects: the catch returns its message.
GenerateRejects ==
    /\ refinePc = "awaiting"
    /\ refined' = ServiceError
    /\ refinePc' = "idle"
    /\ UNCHANGED <<apiKey, originalPrompt, requests, viewVars, exportVars, store, appVars, formVars,
                   detailVars, importVars, taskVars, envVars>>

(***************************************************************************)
(* App.filteredItems, the category tabs and the search box.                *)
(***************************************************************************)
\* String.prototype.toLowerCase over the letters of the model.
ToLowerChar(c) ==
    CASE c = "A" -> "a"
      [] c = "C" -> "c"
      [] c = "T" -> "t"
      [] OTHER -> c

ToLowerCase(s) == [i \in 1..Len(s) |-> ToLowerChar(s[i])]

\* String.prototype.includes
Includes(s, q) == \E i \in 0..(Len(s) - Len(q)) : SubSeq(s, i + 1, i + Len(q)) = q

\* matchesSearch, evaluated left to right: "throw" is the TypeError raised by
\* calling a method on a field the record does not carry.
MatchesSearch(item, q) ==
    IF "title" \notin DOMAIN item THEN "throw"
    ELSE IF Includes(ToLowerCase(item.title), ToLowerCase(q)) THEN "true"
    ELSE IF "prompt" \notin DOMAIN item THEN "throw"
    ELSE IF Includes(ToLowerCase(item.prompt), ToLowerCase(q)) THEN "true"
    ELSE IF "tags" \notin DOMAIN item THEN "throw"
    ELSE IF \E t \in 1..Len(item.tags) : Includes(ToLowerCase(item.tags[t]), ToLowerCase(q))
         THEN "true"
    ELSE "false"

\* item.category === activeCategory
MatchesCategory(item, cat) == "category" \in DOMAIN item /\ item.category = cat

\* items.filter(...): the callback runs on every record, so one TypeError
\* ends the whole computation.
FilterItems(its, cat, q) ==
    IF \E i \in 1..Len(its) : MatchesSearch(its[i], q) = "throw"
    THEN [kind |-> "throw"]
    ELSE [kind |-> "ok",
          list |-> SelectSeq(its, LAMBDA it :
                       MatchesCategory(it, cat) /\ MatchesSearch(it, q) = "true")]

filteredItems == FilterItems(items, activeCategory, searchQuery)

\* What a user types into the search box.
Queries == {Empty, <<"c", "a", "t">>, <<"C", "A">>}

\* setActiveCategory from a category tab
SetActiveCategory(c) ==
    /\ ~isFormOpen
    /\ selectedItem = None
    /\ c # activeCategory
    /\ activeCategory' = c
    /\ UNCHANGED <<searchQuery, refineVars, exportVars, store, appVars, formVars, detailVars,
                   importVars, taskVars, envVars>>

\* setSearchQuery from the search box
SetSearchQuery(q) ==
    /\ ~isFormOpen
    /\ selectedItem = None
    /\ q # searchQuery
    /\ searchQuery' = q
    /\ UNCHANGED <<activeCategory, refineVars, exportVars, store, appVars, formVars, detailVars,
                   importVars, taskVars, envVars>>

\* Time passes.
Tick ==
    /\ now < MaxClock
    /\ now' = now + 1
    /\ UNCHANGED <<viewVars, refineVars, exportVars, store, appVars, formVars, detailVars, importVars, taskVars, alerts>>

Next ==
    \/ \E i \in 1..Len(loads) : LoadPersistOk(i)
    \/ \E i \in 1..Len(loads) : LoadPersistFail(i)
    \/ \E i \in 1..Len(loads) : LoadGetAllOk(i)
    \/ \E i \in 1..Len(loads) : LoadGetAllFail(i)
    \/ \E i \in 1..Len(loads) : LoadSetItems(i)
    \/ \E f \in MainFiles : HandleFileChange(f)
    \/ ImportOnload
    \/ ImportReadError
    \/ \E ok \in BOOLEAN : ImportSaveDone(ok)
    \/ HandleExport
    \/ \E ok \in BOOLEAN : ExportDone(ok)
    \/ OpenCreateModal
    \/ CloseForm
    \/ HandleSubmit
    \/ \E ok \in BOOLEAN : SaveDone(ok)
    \/ \E i \in 1..Len(items) : SelectItem(i)
    \/ CloseDetail
    \/ OpenEditModal
    \/ DeleteClickArm
    \/ DeleteClickConfirm
    \/ TimerFire
    \/ \E id \in deleteTasks, ok \in BOOLEAN : DeleteDone(id, ok)
    \/ \E c \in CATEGORIES : SetActiveCategory(c)
    \/ \E q \in Queries : SetSearchQuery(q)
    \/ \E p \in Prompts : RefinePrompt(p)
    \/ \E t \in ResponseTexts : GenerateResolves(t)
    \/ GenerateRejects
    \/ Tick

Spec == Init /\ [][Next]_vars

(***************************************************************************)
(* The settings dialog alone: a user who only restores backups.            *)
(***************************************************************************)
NextImport ==
    \/ \E i \in 1..Len(loads) : LoadPersistOk(i)
    \/ \E i \in 1..Len(loads) : LoadPersistFail(i)
    \/ \E i \in 1..Len(loads) : LoadGetAllOk(i)
    \/ \E i \in 1..Len(loads) : LoadGetAllFail(i)
    \/ \E i \in 1..Len(loads) : LoadSetItems(i)
    \/ \E f \in Files : HandleFileChange(f)
    \/ ImportOnload
    \/ ImportReadError
    \/ \E ok \in BOOLEAN : ImportSaveDone(ok)

SpecImport == Init /\ [][NextImport]_vars

\* A promise that loadData awaits settles.
LoadSettles ==
    \E i \in 1..Len(loads) :
        \/ LoadPersistOk(i)
        \/ LoadPersistFail(i)
        \/ LoadGetAllOk(i)
        \/ LoadGetAllFail(i)
        \/ LoadSetItems(i)

\* The FileReader finishes, or a db.save of the import settles.
ImportSettles == ImportOnload \/ ImportReadError \/ \E ok \in BOOLEAN : ImportSaveDone(ok)

\* The settings dialog alone, every awaited promise settling in the end; the
\* user is free never to choose a file.
SpecImportLive == SpecImport /\ WF_vars(LoadSettles) /\ WF_vars(ImportSettles)

(***************************************************************************)
(* The list, the form and the detail dialog alone: a user who never opens  *)
(* the settings dialog.                                                    *)
(***************************************************************************)
NextCrud ==
    \/ \E i \in 1..Len(loads) : LoadPersistOk(i)
    \/ \E i \in 1..Len(loads) : LoadPersistFail(i)
    \/ \E i \in 1..Len(loads) : LoadGetAllOk(i)
    \/ \E i \in 1..Len(loads) : LoadGetAllFail(i)
    \/ \E i \in 1..Len(loads) : LoadSetItems(i)
    \/ OpenCreateModal
    \/ CloseForm
    \/ HandleSubmit
    \/ \E ok \in BOOLEAN : SaveDone(ok)
    \/ \E i \in 1..Len(items) : SelectItem(i)
    \/ CloseDetail
    \/ OpenEditModal
    \/ DeleteClickArm
    \/ DeleteClickConfirm
    \/ TimerFire
    \/ \E id \in deleteTasks, ok \in BOOLEAN : DeleteDone(id, ok)
    \/ Tick

SpecCrud == Init /\ [][NextCrud]_vars

\* The same user on a store and a browser that never fail: every awaited
\* promise resolves.
NextCrudNoFailure ==
    \/ \E i \in 1..Len(loads) : LoadPersistOk(i)
    \/ \E i \in 1..Len(loads) : LoadGetAllOk(i)
    \/ \E i \in 1..Len(loads) : LoadSetItems(i)
    \/ OpenCreateModal
    \/ CloseForm
    \/ HandleSubmit
    \/ SaveDone(TRUE)
    \/ \E i \in 1..Len(items) : SelectItem(i)
    \/ CloseDetail
    \/ OpenEditModal
    \/ DeleteClickArm
    \/ DeleteClickConfirm
    \/ TimerFire
    \/ \E id \in deleteTasks : DeleteDone(id, TRUE)
    \/ Tick

SpecCrudNoFailure == Init /\ [][NextCrudNoFailure]_vars

(***************************************************************************)
(* A user who restores a backup and then creates and edits records.        *)
(***************************************************************************)
NextVault ==
    \/ \E i \in 1..Len(loads) : LoadPersistOk(i)
    \/ \E i \in 1..Len(loads) : LoadPersistFail(i)
    \/ \E i \in 1..Len(loads) : LoadGetAllOk(i)
    \/ \E i \in 1..Len(loads) : LoadGetAllFail(i)
    \/ \E i \in 1..Len(loads) : LoadSetItems(i)
    \/ \E f \in MainFiles : HandleFileChange(f)
    \/ ImportOnload
    \/ ImportReadError
    \/ \E ok \in BOOLEAN : ImportSaveDone(ok)
    \/ OpenCreateModal
    \/ CloseForm
    \/ HandleSubmit
    \/ \E ok \in BOOLEAN : SaveDone(ok)
    \/ \E i \in 1..Len(items) : SelectItem(i)
    \/ CloseDetail
    \/ OpenEditModal

SpecVault == Init /\ [][NextVault]_vars

(***************************************************************************)
(* A user who restores a backup and then browses it with the category tabs *)
(* and the search box.                                                     *)
(***************************************************************************)
CatsTagged ==
    [id |-> "1", category |-> "img2vid", title |-> <<"a">>, prompt |-> <<"x">>,
     outputMediaUrl |-> <<"u">>, tags |-> <<<<"u">>, <<"C", "a", "t", "s">>>>]

CatTitledGeneral ==
    [id |-> "2", category |-> "general", title |-> <<"C", "A", "T">>, prompt |-> <<"x">>,
     tags |-> <<>>]

Untagged ==
    [id |-> "2", category |-> "img2vid", title |-> <<"a">>, prompt |-> <<"c", "a">>,
     outputMediaUrl |-> <<"u">>]

ViewFiles ==
    {ArrayText(<<JObject(CatsTagged), JObject(CatTitledGeneral)>>),
     ArrayText(<<JObject(CatsTagged), JObject(Untagged)>>),
     ArrayText(<<JObject(BlankNoOutput), JObject(ImportedFull)>>)}

NextView ==
    \/ \E i \in 1..Len(loads) : LoadPersistOk(i)
    \/ \E i \in 1..Len(loads) : LoadPersistFail(i)
    \/ \E i \in 1..Len(loads) : LoadGetAllOk(i)
    \/ \E i \in 1..Len(loads) : LoadGetAllFail(i)
    \/ \E i \in 1..Len(loads) : LoadSetItems(i)
    \/ \E f \in ViewFiles : HandleFileChange(f)
    \/ ImportOnload
    \/ \E ok \in BOOLEAN : ImportSaveDone(ok)
    \/ \E c \in CATEGORIES : SetActiveCategory(c)
    \/ \E q \in Queries : SetSearchQuery(q)

SpecView == Init /\ [][NextView]_vars

(***************************************************************************)
(* refinePrompt alone, called again and again.                             *)
(***************************************************************************)
\* A build with or without API_KEY in its environment.
InitRefine ==
    /\ store = <<>>
    /\ items = <<>>
    /\ isLoading = TRUE
    /\ editingItem = None
    /\ selectedItem = None
    /\ isFormOpen = FALSE
    /\ isSaving = FALSE
    /\ errors = {}
    /\ isDeleting = FALSE
    /\ timers = 0
    /\ armedId = ""
    /\ isImporting = FALSE
    /\ statusMsg = NoStatus
    /\ importPc = "idle"
    /\ fileText = <<>>
    /\ parsedData = <<>>
    /\ idx = 0
    /\ count = 0
    /\ loads = <<LoadPending>>
    /\ saveTask = None
    /\ deleteTasks = {}
    /\ isExporting = FALSE
    /\ download = <<>>
    /\ exported = <<>>
    /\ alerts = 0
    /\ now = 1
    /\ activeCategory = "txt2img"
    /\ searchQuery = Empty
    /\ apiKey \in BOOLEAN
    /\ refinePc = "idle"
    /\ originalPrompt = Empty
    /\ refined = None
    /\ requests = 0

NextRefine ==
    \/ \E p \in Prompts : RefinePrompt(p)
    \/ \E t \in ResponseTexts : GenerateResolves(t)
    \/ GenerateRejects

SpecRefine == InitRefine /\ [][NextRefine]_vars

(***************************************************************************)
(* Backup and restore: the application starts on any collection it can     *)
(* hold, exports it, and the backup file is restored by an installation    *)
(* whose store is empty.                                                   *)
(***************************************************************************)
FormWritten(base) == {fd \in FormDatas(base) : NewErrors(fd) = {}}

Created == UNION {{With(fd, "id", NowId(n)) : fd \in FormWritten(DefaultFormData(n))} :
                    n \in 1..MaxClock}

Imported == {o \in ImportObjects : Accepts(o)}

Edited(recs) == recs \cup UNION {FormWritten(b) : b \in recs}

\* The records a save can be asked to write: imported, created, edited.
HoldableRecords == Edited(Edited(Created \cup Imported))

HoldableStores ==
    {s \in UNION {[D -> HoldableRecords] : D \in SUBSET Range(KeyOrder)} :
        \A k \in DOMAIN s : s[k].id = k}

InitRT ==
    /\ store \in HoldableStores
    /\ items = <<>>
    /\ isLoading = TRUE
    /\ editingItem = None
    /\ selectedItem = None
    /\ isFormOpen = FALSE
    /\ isSaving = FALSE
    /\ errors = {}
    /\ isDeleting = FALSE
    /\ timers = 0
    /\ armedId = ""
    /\ isImporting = FALSE
    /\ statusMsg = NoStatus
    /\ importPc = "idle"
    /\ fileText = <<>>
    /\ parsedData = <<>>
    /\ idx = 0
    /\ count = 0
    /\ loads = <<LoadPending>>
    /\ saveTask = None
    /\ deleteTasks = {}
    /\ isExporting = FALSE
    /\ download = <<>>
    /\ exported = <<>>
    /\ alerts = 0
    /\ now = 1
    /\ activeCategory = "txt2img"
    /\ searchQuery = Empty
    /\ apiKey = TRUE
    /\ refinePc = "idle"
    /\ originalPrompt = Empty
    /\ refined = None
    /\ requests = 0

\* The backup file is carried to an installation with an empty store, which
\* mounts as in Init.
FreshInstall ==
    /\ download # <<>>
    /\ store # <<>>
    /\ store' = <<>>
    /\ items' = <<>>
    /\ isLoading' = TRUE
    /\ isImporting' = FALSE
    /\ statusMsg' = NoStatus
    /\ importPc' = "idle"
    /\ fileText' = <<>>
    /\ parsedData' = <<>>
    /\ idx' = 0
    /\ count' = 0
    /\ loads' = <<LoadPending>>
    /\ isExporting' = FALSE
    /\ UNCHANGED <<viewVars, refineVars, editingItem, selectedItem, isFormOpen, formVars, detailVars, download,
                   exported, saveTask, deleteTasks, envVars>>

\* The user chooses the backup file produced by the export, on an empty store.
RestoreBackup ==
    /\ download # <<>>
    /\ store = <<>>
    /\ HandleFileChange(download)

NextRT ==
    \/ \E i \in 1..Len(loads) : LoadPersistOk(i)
    \/ \E i \in 1..Len(loads) : LoadPersistFail(i)
    \/ \E i \in 1..Len(loads) : LoadGetAllOk(i)
    \/ \E i \in 1..Len(loads) : LoadGetAllFail(i)
    \/ \E i \in 1..Len(loads) : LoadSetItems(i)
    \/ HandleExport
    \/ \E ok \in BOOLEAN : ExportDone(ok)
    \/ FreshInstall
    \/ RestoreBackup
    \/ ImportOnload
    \/ \E ok \in BOOLEAN : ImportSaveDone(ok)

SpecRT == InitRT /\ [][NextRT]_vars

(***************************************************************************)
(* Vocabulary of the claims about the import.                              *)
(***************************************************************************)
\* The array an import step works on, before the step.
ImportElems == IF importPc = "reading" THEN JsonParse(fileText).elems ELSE parsedData

\* The chosen file parses to an array.
ImportIsArray ==
    \/ importPc = "saving"
    \/ importPc = "reading" /\ JsonParse(fileText).ok /\ JsonParse(fileText).isArray

\* A step of reader.onload: the handler starts, or resumes after a save.
ImportStep ==
    \/ importPc = "reading" /\ importPc' \in {"saving", "idle"}
    \/ importPc = "saving" /\ (importPc' = "idle" \/ idx' # idx)

\* The step that ends the import.
ImportEnds == importPc \in {"reading", "saving"} /\ importPc' = "idle"

\* The step ends the import because db.save rejected, and for no other reason.
StorageFailureEnds ==
    /\ importPc = "saving"
    /\ importPc' = "idle"
    /\ statusMsg' = ErrorStatus
    /\ ~(/\ store' = DbSave(store, parsedData[idx].obj)
         /\ RunLoop(parsedData, idx + 1).kind = "throw")

\* An element with a non-empty id, one of the five categories and a non-empty prompt.
RecognizedRecord(e) ==
    /\ e.type = "object"
    /\ TruthyStr(e.obj, "id")
    /\ "category" \in DOMAIN e.obj
    /\ e.obj.category \in CATEGORIES
    /\ TruthyText(e.obj, "prompt")

\* An element with a non-empty id, some category and a non-empty prompt.
AcceptedRecord(e) == e.type = "object" /\ Accepts(e.obj)

\* C1: an element of the imported array is saved if and only if it has a
\* non-empty id, one of the five recognized categories and a non-empty
\* prompt: every element the loop passes over is not such a record, and the
\* element whose save it awaits is one.
C1_SavedIffRecognized ==
    [][(ImportStep /\ ImportIsArray /\ statusMsg' # ErrorStatus) =>
          LET elems == ImportElems
              from  == IF importPc = "reading" THEN 1 ELSE idx + 1
              to    == IF importPc' = "saving" THEN idx' ELSE Len(elems) + 1
          IN  /\ \A j \in from..(to - 1) : ~RecognizedRecord(elems[j])
              /\ importPc' = "saving" => RecognizedRecord(elems[to])]_vars

\* C2: an import of an array never ends in the error outcome because of an
\* invalid element, and when it ends every valid element of the array is in
\* the store.
C2_BadElementNeverAborts ==
    [][(ImportEnds /\ ImportIsArray /\ ~StorageFailureEnds) =>
          /\ statusMsg'.type # "error"
          /\ \A j \in 1..Len(ImportElems) :
                AcceptedRecord(ImportElems[j]) => ImportElems[j].obj.id \in DOMAIN store']_vars

\* The chosen file is the text of a JSON array, judged on the text itself.
ArrayFile == \E vs \in Arrays : fileText = ArrayText(vs)

\* C8: when the chosen file does not parse or its top-level value is not an
\* array, the import ends at once with the error status: no save is awaited,
\* the store and the in-memory list are unchanged and no reload is started.
C8_MalformedRejected ==
    [][(importPc = "reading" /\ importPc' \notin {"reading", "stuck"} /\ ~ArrayFile) =>
          /\ importPc' = "idle"
          /\ statusMsg' = ErrorStatus
          /\ ~isImporting'
          /\ store' = store
          /\ items' = items
          /\ loads' = loads
          /\ isLoading' = isLoading]_vars

\* A file that is not an array has been chosen and is being read.
C8_Witness ==
    /\ importPc = "reading"
    /\ isImporting
    /\ ~ArrayFile
    /\ fileText \in {GarbageFile, ObjectFile}

\* C9: an import of an array of N elements ends, without raising, with the
\* success status carrying the number of elements that are valid records
\* (the rejected count being N minus that number).
C9_CountsReported ==
    [][(ImportEnds /\ ImportIsArray /\ ~StorageFailureEnds) =>
          statusMsg' = SuccessStatus(
              Cardinality({j \in 1..Len(ImportElems) : AcceptedRecord(ImportElems[j])}))]_vars

(***************************************************************************)
(* Claims about the list, the form and the detail dialog.                  *)
(***************************************************************************)
\* C3: when the save behind a create or an edit fails (the alert is shown),
\* the in-memory list does not hold the record that could not be written.
C3_FailedSaveNotApplied ==
    [][(alerts' = alerts + 1) => saveTask \notin Range(items')]_vars

\* C4: whenever the store call behind a create, an edit, a delete or an
\* import save fails, the user is told: a delete that leaves its record in
\* the store, or a save that leaves the store without the record, comes with
\* an alert or the error status.
C4_NoSilentDrop ==
    [][/\ \A id \in deleteTasks \ deleteTasks' : id \in DOMAIN store' => alerts' = alerts + 1
       /\ (saveTask # None /\ saveTask' = None
             /\ ~(saveTask.id \in DOMAIN store' /\ store'[saveTask.id] = saveTask))
          => alerts' = alerts + 1
       /\ StorageFailureEnds => statusMsg' = ErrorStatus]_vars

\* C5: no two records share an id, in the store and in the in-memory list.
C5_UniqueIds ==
    /\ \A k \in DOMAIN store : store[k].id = k
    /\ \A i, j \in 1..Len(items) : items[i].id = items[j].id => i = j

(***************************************************************************)
(* Claims about what a persisted record holds.                             *)
(***************************************************************************)
HasTitle(o) == "title" \in DOMAIN o /\ Trim(o.title) # Empty

HasPrompt(o) == "prompt" \in DOMAIN o /\ Trim(o.prompt) # Empty

HasOutputIfMedia(o) == o.category = "general" \/ TruthyText(o, "outputMediaUrl")

\* C6 as claimed: every persisted record has a non-empty title and a
\* non-empty prompt after trimming, import included.
C6_AllPersistedTitled ==
    \A k \in DOMAIN store : HasTitle(store[k]) /\ HasPrompt(store[k])

\* C6: every record the form asks the store to save (create or edit) has a
\* non-empty title and a non-empty prompt after trimming; every persisted
\* record, import included, has a non-empty id and a prompt that is not the
\* empty string.
C6_FormRecordsTitled ==
    /\ saveTask # None => HasTitle(saveTask) /\ HasPrompt(saveTask)
    /\ \A k \in DOMAIN store : TruthyStr(store[k], "id") /\ TruthyText(store[k], "prompt")

\* A form save is awaited while the store holds an imported record without
\* a title.
C6_Witness ==
    /\ saveTask # None
    /\ \E k \in DOMAIN store : "title" \notin DOMAIN store[k]

\* C7 as claimed: no persisted record has a category other than general and
\* an empty or absent outputMediaUrl, import included.
C7_AllPersistedHaveOutput ==
    \A k \in DOMAIN store : HasOutputIfMedia(store[k])

\* C7: every record the form asks the store to save (create or edit) has
\* the category general or a non-empty outputMediaUrl.
C7_FormRecordsHaveOutput ==
    saveTask # None => HasOutputIfMedia(saveTask)

\* A form save of a media record is awaited while the store holds an imported
\* media record without an output.
C7_Witness ==
    /\ saveTask # None
    /\ saveTask.category # "general"
    /\ \E k \in DOMAIN store : ~HasOutputIfMedia(store[k])

(***************************************************************************)
(* Backup and restore.                                                     *)
(***************************************************************************)
\* C10: when the import of an exported backup into an empty store has ended
\* with the success status, the store holds exactly the records the export
\* read: the same ids with the same field values, none lost, none altered.
C10_RoundTrip ==
    (statusMsg.type = "success" /\ "count" \in DOMAIN statusMsg) =>
        /\ DbGetAll(store) = exported
        /\ DOMAIN store = {exported[i].id : i \in 1..Len(exported)}
        /\ statusMsg.count = Len(exported)

\* A backup of two records, one of them without a title, has been restored.
C10_Witness ==
    /\ statusMsg = SuccessStatus(2)
    /\ Len(exported) = 2
    /\ DbGetAll(store) = exported
    /\ \E i \in 1..2 : "title" \notin DOMAIN exported[i]

(***************************************************************************)
(* Claims about the filter.                                                *)
(***************************************************************************)
\* The records of a list whose category is c, in list order.
OfCategory(its, c) == SelectSeq(its, LAMBDA it : "category" \in DOMAIN it /\ it.category = c)

\* q is a case-insensitive substring of the text t.
FoundIn(t, q) ==
    \E i \in 0..(Len(t) - Len(q)) :
        \A j \in 1..Len(q) : ToLowerChar(t[i + j]) = ToLowerChar(q[j])

\* q occurs in the title, the prompt or a tag of the record, a field the
\* record does not carry holding no occurrence.
SearchHit(it, q) ==
    \/ "title" \in DOMAIN it /\ FoundIn(it.title, q)
    \/ "prompt" \in DOMAIN it /\ FoundIn(it.prompt, q)
    \/ "tags" \in DOMAIN it /\ \E t \in 1..Len(it.tags) : FoundIn(it.tags[t], q)

\* C11: with empty search text the filter returns, for every category,
\* exactly the records of the in-memory list whose category is that category.
C11_EmptySearchKeepsCategory ==
    \A c \in CATEGORIES :
        FilterItems(items, c, Empty) = [kind |-> "ok", list |-> OfCategory(items, c)]

\* C12: with a non-empty search text the filter keeps a record if and only
\* if its category is the active category and the text is a case-insensitive
\* substring of its title, its prompt or one of its tags.
C12_SearchKeepsMatches ==
    \A c \in CATEGORIES : \A q \in Queries \ {Empty} :
        FilterItems(items, c, q) =
            [kind |-> "ok",
             list |-> SelectSeq(items, LAMBDA it : MatchesCategory(it, c) /\ SearchHit(it, q))]

(***************************************************************************)
(* Claims about the requests in flight and about the form.                 *)
(***************************************************************************)
\* The store requests that are awaited and the loads that will replace the list.
InFlight ==
    (IF saveTask # None THEN 1 ELSE 0) + Cardinality(deleteTasks) + Len(loads)
    + (IF importPc = "saving" THEN 1 ELSE 0)

\* C13: at most one mutation is in progress at any time: a pending save, a
\* pending delete, a save of a running import and a load of the in-memory
\* list never overlap.
C13_OneMutationAtATime == InFlight <= 1

\* formData before a submit: what the effect installed when the dialog opened.
FormBase == IF editingItem # None THEN editingItem ELSE DefaultFormData(now)

\* The fields of a submitted record that fail validation: a title or prompt
\* that is empty once trimmed, an empty outputMediaUrl outside "general".
FailingFields(fd) ==
    {k \in {"title", "prompt"} : k \notin DOMAIN fd \/ \A i \in 1..Len(fd[k]) : fd[k][i] = " "}
    \cup {k \in {"outputMediaUrl"} :
            /\ ~("category" \in DOMAIN fd /\ fd.category = "general")
            /\ (k \notin DOMAIN fd \/ Len(fd[k]) = 0)}

\* C14: a submit of a record that fails validation flags the failing fields
\* and nothing else happens: no save is issued, the dialog stays open, the
\* in-memory list and the store are unchanged.
C14_InvalidSubmitStopsAtForm ==
    [][\A fd \in FormDatas(FormBase) :
          (/\ FailingFields(fd) # {}
           /\ (SubmitInvalid(fd) \/ SubmitEdit(fd) \/ SubmitCreate(fd))) =>
              /\ errors' = FailingFields(fd)
              /\ saveTask' = saveTask
              /\ isSaving' = isSaving
              /\ isFormOpen'
              /\ items' = items
              /\ store' = store]_vars

\* An invalid submit has flagged a field while the store holds a record.
C14_Witness ==
    /\ isFormOpen
    /\ errors # {}
    /\ saveTask = None
    /\ store # <<>>

\* The records of a list other than those with the given id, in list order.
Others(its, id) == SelectSeq(its, LAMBDA it : it.id # id)

\* C15: a save is an upsert by id, in the in-memory list and in the store.
\* When a save is issued and no save has failed so far, the list holds exactly one record with its id, the
\* submitted one, the records of other ids are untouched and a record saved
\* again with identical content leaves the list as it was; when the save
\* completes the store holds the record under its id and nothing else moved.
C15_SavesUpsert ==
    [][/\ (alerts = 0 /\ saveTask = None /\ saveTask' # None) =>
             /\ Cardinality({i \in 1..Len(items') : items'[i].id = saveTask'.id}) = 1
             /\ saveTask' \in Range(items')
             /\ Others(items', saveTask'.id) = Others(items, saveTask'.id)
             /\ (saveTask' \in Range(items) => items' = items)
       /\ (saveTask # None /\ saveTask' = None /\ alerts' = alerts) =>
             /\ DOMAIN store' = DOMAIN store \cup {saveTask.id}
             /\ store'[saveTask.id] = saveTask
             /\ \A k \in DOMAIN store \ {saveTask.id} : store'[k] = store[k]]_vars

\* C16: a delete of an id removes every record with that id from the
\* in-memory list and leaves the other records as they were; when db.delete
\* resolves, the collection read afterwards holds no record with that id and
\* its other records are unchanged.  A delete of an id that is absent changes
\* nothing, and no alert is raised in either step.
C16_DeleteRemoves ==
    [][/\ \A id \in deleteTasks' \ deleteTasks :
             /\ \A i \in 1..Len(items') : items'[i].id # id
             /\ items' = Others(items, id)
             /\ ((\A i \in 1..Len(items) : items[i].id # id) => items' = items)
             /\ alerts' = alerts
       /\ \A id \in deleteTasks :
             DeleteDone(id, TRUE) =>
                 /\ \A i \in 1..Len(DbGetAll(store')) : DbGetAll(store')[i].id # id
                 /\ DbGetAll(store') = Others(DbGetAll(store), id)
                 /\ (id \notin DOMAIN store => store' = store)
                 /\ items' = items
                 /\ alerts' = alerts]_vars

\* A stored record has been deleted from the list and its db.delete is awaited.
C16_Witness ==
    /\ selectedItem = None
    /\ \E id \in deleteTasks :
          /\ id \in DOMAIN store
          /\ \A i \in 1..Len(items) : items[i].id # id

(***************************************************************************)
(* Claims about loadData.                                                  *)
(***************************************************************************)
\* C17: every load ends with the loading flag cleared: whenever isLoading is
\* true it becomes false later, whichever step of loadData fails.
C17_LoadingClears == isLoading ~> ~isLoading

\* C18: an edit replaces the record in place: the submitted record keeps the
\* id of the record being edited, the list keeps its length and its order,
\* every record with that id becomes the submitted record and every other
\* record is unchanged.
C18_EditReplacesInPlace ==
    [][(editingItem # None /\ saveTask = None /\ saveTask' # None) =>
          /\ saveTask'.id = editingItem.id
          /\ Len(items') = Len(items)
          /\ \A i \in 1..Len(items) :
                items'[i] = IF items[i].id = editingItem.id THEN saveTask' ELSE items[i]]_vars

\* An edit of a stored record has replaced it in the list and awaits db.save.
C18_Witness ==
    /\ saveTask # None
    /\ editingItem = None
    /\ items = <<saveTask>>
    /\ saveTask.id \in DOMAIN store
    /\ store[saveTask.id] # saveTask
    /\ deleteTasks = {}
    /\ alerts = 0

(***************************************************************************)
(* Claims about the order of the saves and the reload of an import.        *)
(***************************************************************************)
\* Every accepted element among the first n is in the collection st, under
\* its id, unless a later accepted element among the first n has the same id.
Durable(elems, n, st) ==
    \A j \in 1..n :
        (/\ AcceptedRecord(elems[j])
         /\ \A k \in (j + 1)..n :
               ~(AcceptedRecord(elems[k]) /\ elems[k].obj.id = elems[j].obj.id)) =>
            /\ elems[j].obj.id \in DOMAIN st
            /\ st[elems[j].obj.id] = elems[j].obj
            /\ elems[j].obj \in Range(DbGetAll(st))

\* C19: when the import starts to await a save, the saves of all earlier
\* accepted elements have completed; when the reload is issued, the saves of
\* all accepted elements have completed; and the reload reads the collection
\* as it is after that.
C19_SavesBeforeReload ==
    [][/\ (ImportStep /\ importPc' = "saving") => Durable(parsedData', idx' - 1, store')
       /\ (Len(loads') > Len(loads)) =>
             /\ importPc \in {"reading", "saving"}
             /\ importPc' = "idle"
             /\ Durable(ImportElems, Len(ImportElems), store')
       /\ \A i \in 1..Len(loads) :
             (loads[i].pc = "getAll" /\ Len(loads') = Len(loads) /\ loads'[i].pc = "setItems") =>
                 loads'[i].storedItems = DbGetAll(store)]_vars

\* An import of two accepted records has ended and its reload has read both.
C19_Witness ==
    /\ statusMsg = SuccessStatus(2)
    /\ importPc = "idle"
    /\ Len(loads) = 1
    /\ loads[1].pc = "setItems"
    /\ Len(loads[1].storedItems) = 2

(***************************************************************************)
(* Claims about refinePrompt.                                              *)
(***************************************************************************)
\* C20: refinePrompt never raises.  Without a key a call returns the fixed
\* message at once and issues no request; with a key a call issues one
\* request, no further request is issued while it is awaited, and the call
\* returns the non-empty text of the response or one of the two failure
\* messages.
C20_RefineNeverRaises ==
    [][/\ refined' # Raised
       /\ \A p \in Prompts :
             RefinePrompt(p) =>
                 IF apiKey
                 THEN requests' = requests + 1 /\ refinePc' = "awaiting" /\ refined' = refined
                 ELSE requests' = requests /\ refinePc' = "idle" /\ refined' = KeyMissing
       /\ refinePc = "awaiting" => requests' = requests
       /\ (refinePc = "awaiting" /\ refinePc' = "idle") =>
             \/ refined' \in {NoResponse, ServiceError}
             \/ refined'.type = "text" /\ refined'.text # Empty]_vars

\* A call without a key has returned the fixed message, no request issued.
C20_Witness ==
    /\ ~apiKey
    /\ refinePc = "idle"
    /\ originalPrompt \in Prompts
    /\ refined = KeyMissing
    /\ requests = 0

(***************************************************************************)
(* Claims about the in-memory list and the store.                          *)
(***************************************************************************)
\* No load, save, delete or import is in flight.
Quiescent ==
    /\ loads = <<>>
    /\ saveTask = None
    /\ deleteTasks = {}
    /\ importPc = "idle"

\* C21: on a store that never fails, whenever nothing is in flight the
\* in-memory list holds exactly the records of the store: as many records,
\* every record of the list is the one stored under its id and every stored
\* record is in the list.
C21_ListMatchesStore ==
    Quiescent =>
        /\ Len(items) = Cardinality(DOMAIN store)
        /\ \A i \in 1..Len(items) :
              items[i].id \in DOMAIN store /\ store[items[i].id] = items[i]
        /\ \A k \in DOMAIN store : store[k] \in Range(items)

(***************************************************************************)
(* Claims about the delete confirmation.                                   *)
(***************************************************************************)
\* C22: a record is deleted only by a second click on delete that follows a
\* first click made while the dialog showed that same record: whenever
\* handleDeleteItem is called for an id, the confirmation was armed on the
\* record with that id.
C22_DeleteNeedsOwnConfirmation ==
    [][\A id \in deleteTasks' \ deleteTasks : armedId = id]_vars

(***************************************************************************)
(* Claims about the filter on restored records and about the end of an     *)
(* import.                                                                 *)
(***************************************************************************)
\* C23: the filter is total on every list the application can hold: for
\* every category and every search text it returns a list and does not raise.
C23_FilterTotal ==
    \A c \in CATEGORIES : \A q \in Queries : FilterItems(items, c, q).kind = "ok"

\* C24: every import releases the importing flag: whenever isImporting is
\* true it becomes false later.
C24_ImportingReleased == isImporting ~> ~isImporting

\* C25: an import that has persisted a record ends by reloading the
\* in-memory list: the step that ends an import after a completed save
\* issues a loadData call.
C25_ReloadAfterPersist ==
    [][(ImportEnds /\ (count > 0 \/ store' # store)) =>
          /\ Len(loads') = Len(loads) + 1
          /\ loads'[Len(loads')] = LoadPending
          /\ isLoading']_vars

\* C26: an import only adds or replaces.  No step removes a record from the
\* store; a stored record changes, or a record appears, only as the accepted
\* element of the backup that carries its id; and when the import ends with
\* success, the record stored under the id of an accepted element is the
\* last accepted element with that id.
C26_ImportAddsOrReplaces ==
    [][/\ DOMAIN store \subseteq DOMAIN store'
       /\ \A k \in DOMAIN store' :
             (k \notin DOMAIN store \/ store'[k] # store[k]) =>
                 /\ importPc = "saving"
                 /\ \E j \in 1..Len(parsedData) :
                       /\ AcceptedRecord(parsedData[j])
                       /\ parsedData[j].obj.id = k
                       /\ store'[k] = parsedData[j].obj
       /\ (ImportEnds /\ statusMsg'.type = "success") =>
             \A j \in 1..Len(ImportElems) :
                 (/\ AcceptedRecord(ImportElems[j])
                  /\ \A m \in (j + 1)..Len(ImportElems) :
                        ~(/\ AcceptedRecord(ImportElems[m])
                          /\ ImportElems[m].obj.id = ImportElems[j].obj.id)) =>
                     store'[ImportElems[j].obj.id] = ImportElems[j].obj]_vars

\* An import of two accepted elements has ended on a store that held a
\* record restored by an earlier import.
C26_Witness ==
    /\ statusMsg = SuccessStatus(2)
    /\ importPc = "idle"
    /\ DOMAIN store = {"1", "2"}
    /\ store["1"] = BlankNoOutput
    /\ store["2"] = ImportedFull
    /\ loads # <<>>
    /\ items = <<ImportedFull>>

====
